---- MODULE Spec2Model ----
(***************************************************************************)
(* Model of the selfcord gateway client (gateway.py, bot.py) and of its    *)
(* outbound rate limiter (utils.py).                                       *)
(*                                                                         *)
(* Two families of specifications share the variables:                     *)
(*   SpecSeq, SpecRL : RateLimiter.wait_if_needed, called sequentially or  *)
(*                     by concurrent coroutines, on a discrete clock;      *)
(*   Spec            : DiscordUser.start / stop, GatewayHandler.connect,   *)
(*                     _handle_message and the _heartbeat_loop tasks.      *)
(* asyncio runs coroutines on one thread: an action is the code between    *)
(* two suspension points (await of a sleep, a read, a connect).            *)
(***************************************************************************)
EXTENDS Integers, Sequences, FiniteSets, TLC

\* Python's None, for the string-valued optional fields.
None == "None"
\* Python's None, for the integer-valued optional field sequence.
NoSeq == -1

(***************************************************************************)
(* Bounds of the model.                                                    *)
(***************************************************************************)
MaxTime == 5
MaxCalls == 3
MaxCallers == 2
MaxCap == 2
MaxWindow == 2
MaxSeq == 2
MaxConns == 2
MaxLoops == 2
MaxAttempts == 6
JitterSteps == 2

(***************************************************************************)
(* Program constants.                                                      *)
(***************************************************************************)
DefaultRequests == 5
DefaultWindow == 5
MaxDelay == 300

VARIABLES
    \* ---- RateLimiter (utils.py)
    now,        \* time.time(), discrete
    config,     \* RateLimiter.config['rate_limits']: bucket name -> limits
    buckets,    \* RateLimiter.buckets: bucket name -> list of timestamps
    rl,         \* per calling coroutine: position inside wait_if_needed
    admitted,   \* history: every timestamp ever recorded, per bucket
    calls,      \* history: number of wait_if_needed calls started
    raised,     \* history: a wait_if_needed call raised an exception
    \* ---- DiscordUser (bot.py)
    pc,         \* where start() / connect() / _handle_message is suspended
    running,    \* DiscordUser.running
    \* ---- GatewayHandler (gateway.py)
    ws,         \* self.ws: "none", or the state of the latest websocket
    session_id,
    sequence,
    heartbeat_interval,
    last_heartbeat_ack,
    reconnect_attempts,
    delay,      \* the local delay of connect() while it sleeps, in
                \* 1/JitterSteps seconds; 0 outside that sleep
    loops,      \* the _heartbeat_loop tasks that have not returned: st, and as
                \* history born, the websocket it was created on
    \* ---- history variables
    conn,           \* number of websockets opened so far
    inp,            \* the frame handled by the last step, if any
    out,            \* the payloads written to the websocket by the last step
    event,          \* the event type given to bot.handle_event by the last step
    stopRequested,  \* stop() has been called
    hbUnacked,      \* heartbeats sent on this websocket and not acknowledged
    identified,     \* a handshake was sent on this websocket
    established,    \* a handshake was sent and a dispatch received since
    viaReconnect,   \* an established session's websocket was closed by op 7
    invalidated,    \* op 9 was handled and no handshake was sent since:
                    \* "no", or whether that op 9 found a stored sequence
    strayed,        \* a heartbeat loop sent on a websocket it was not created on
    ackBuffered     \* a HEARTBEAT ACK reached this websocket while
                    \* _handle_message was suspended and is not read yet

rlvars == <<now, config, buckets, rl, admitted, calls, raised>>
gwvars == <<pc, running, ws, session_id, sequence, heartbeat_interval,
            last_heartbeat_ack, reconnect_attempts, delay, loops, conn, inp, out,
            event, stopRequested, hbUnacked, identified, established, viaReconnect,
            invalidated, strayed, ackBuffered>>
vars == <<rlvars, gwvars>>

(***************************************************************************)
(* RateLimiter                                                             *)
(***************************************************************************)
BucketNames == {"message", "command"}
Callers == 1..MaxCallers

DefaultLimits == [requests |-> DefaultRequests, window |-> DefaultWindow]

ConfiguredLimits == [requests : 0..MaxCap, window : 1..MaxWindow]

\* The rate_limits mappings the limiter may be constructed with: any subset
\* of the bucket names, each with its own limits.
Configs == UNION {[S -> ConfiguredLimits] : S \in SUBSET BucketNames}

\* limits = config.get('rate_limits', {}).get(bucket_name, {5, 5})
Limits(cfg, b) == IF b \in DOMAIN cfg THEN cfg[b] ELSE DefaultLimits

\* [t for t in bucket['requests'] if now - t < window]
Prune(reqs, t0, window) == SelectSeq(reqs, LAMBDA t : t0 - t < window)

\* min(bucket['requests'])
MinOf(reqs) == CHOOSE m \in {reqs[i] : i \in DOMAIN reqs} :
                   \A i \in DOMAIN reqs : m <= reqs[i]

NeedsWaitOffByOne(reqs, max_requests) == Len(reqs) > max_requests

\* if len(bucket['requests']) >= max_requests
NeedsWait(reqs, max_requests) == Len(reqs) >= max_requests

WaitTimeFromNewest(reqs, t0, window) == window - (t0 - reqs[Len(reqs)])

\* wait_time = window - (now - min(bucket['requests']))
WaitTime(reqs, t0, window) == window - (t0 - MinOf(reqs))

BucketOfShared(bs, b) ==
    IF "message" \in DOMAIN bs THEN bs["message"] ELSE <<>>

\* self.buckets[bucket_name], created empty when absent
BucketOf(bs, b) == IF b \in DOMAIN bs THEN bs[b] ELSE <<>>

SetBucket(bs, b, reqs) ==
    [x \in DOMAIN bs \cup {b} |-> IF x = b THEN reqs ELSE bs[x]]

IdleCaller == [pc |-> "idle", bucket |-> None, wake |-> 0]

InitRLFixed ==
    /\ now = 0
    /\ buckets = <<>>
    /\ rl = [c \in Callers |-> IdleCaller]
    /\ admitted = [b \in BucketNames |-> <<>>]
    /\ calls = 0
    /\ raised = FALSE

\* wait_if_needed up to its suspension point (or to its end when the caller
\* is not suspended).
Call(c, b) ==
    LET limits == Limits(config, b)
        pruned == Prune(BucketOf(buckets, b), now, limits.window)
    IN  /\ rl[c].pc = "idle"
        /\ calls < MaxCalls
        /\ calls' = calls + 1
        /\ IF NeedsWait(pruned, limits.requests)
           THEN IF pruned = <<>>
                THEN \* min() of an empty list raises ValueError
                     /\ buckets' = SetBucket(buckets, b, pruned)
                     /\ raised' = TRUE
                     /\ UNCHANGED <<rl, admitted>>
                ELSE /\ buckets' = SetBucket(buckets, b, pruned)
                     /\ rl' = [rl EXCEPT ![c] =
                                 [pc |-> "sleeping", bucket |-> b,
                                  wake |-> now + WaitTime(pruned, now, limits.window)]]
                     /\ UNCHANGED <<admitted, raised>>
           ELSE /\ buckets' = SetBucket(buckets, b, Append(pruned, now))
                /\ admitted' = [admitted EXCEPT ![b] = Append(@, now)]
                /\ UNCHANGED <<rl, raised>>
        /\ UNCHANGED <<now, config, gwvars>>

\* asyncio.sleep(wait_time) returns, no earlier than asked; the caller
\* records its timestamp without looking at the bucket again.
Wake(c) ==
    /\ rl[c].pc = "sleeping"
    /\ now >= rl[c].wake
    /\ buckets' = SetBucket(buckets, rl[c].bucket,
                            Append(BucketOf(buckets, rl[c].bucket), now))
    /\ admitted' = [admitted EXCEPT ![rl[c].bucket] = Append(@, now)]
    /\ rl' = [rl EXCEPT ![c] = IdleCaller]
    /\ UNCHANGED <<now, config, calls, raised, gwvars>>

Tick ==
    /\ now < MaxTime
    /\ now' = now + 1
    /\ UNCHANGED <<config, buckets, rl, admitted, calls, raised, gwvars>>

(***************************************************************************)
(* Gateway: frames and payloads                                            *)
(***************************************************************************)
max_reconnect_attempts == 5

SeqValues == {NoSeq} \cup (1..MaxSeq)

EventTypes == {"READY", "MESSAGE_CREATE"}

\* Inbound frames {op, d, s, t}.  d is kept only as far as the handler reads
\* it: the resumability hint of op 9, and whether the d of op 10 holds a
\* heartbeat_interval.
FramesOf(o, ds, ts) == [op : {o}, s : SeqValues, d : ds, t : ts]

DispatchFrames == FramesOf(0, {"payload"}, EventTypes)
HeartbeatRequestFrames == FramesOf(1, {None}, {None})
ReconnectFrames == FramesOf(7, {None}, {None})
InvalidSessionFrames == FramesOf(9, {"true", "false"}, {None})
HelloFrames == FramesOf(10, {"interval", "missing"}, {None})
HeartbeatAckFrames == FramesOf(11, {None}, {None})
\* an opcode the handler has no branch for
OtherFrames == FramesOf(3, {None}, {None})

NoFrame == [op |-> -1, s |-> NoSeq, d |-> None, t |-> None]

\* Outbound control payloads.
Heartbeat(seq) == [op |-> 1, session_id |-> None, seq |-> seq]
Identify == [op |-> 2, session_id |-> None, seq |-> NoSeq]
Resume(sid, seq) == [op |-> 6, session_id |-> sid, seq |-> seq]

\* _send_payload: written only to an open websocket, dropped otherwise
SendPayload(w, payload) == IF w = "open" THEN <<payload>> ELSE <<>>

SequenceAfterStale(seq, s) == seq

\* if s is not None: self.sequence = s
SequenceAfter(seq, s) == IF s # NoSeq THEN s ELSE seq

InvalidSessionHonourHint(d, sid, seq) ==
    IF d = "true" THEN [session_id |-> sid, sequence |-> seq]
                  ELSE [session_id |-> None, sequence |-> NoSeq]

InvalidSessionAssignsPayload(d, sid, seq) ==
    [session_id |-> d, sequence |-> NoSeq]

\* op 9: self.session_id = None; self.sequence = None (d is not read)
InvalidSession(d, sid, seq) == [session_id |-> None, sequence |-> NoSeq]

HandshakeInverted(sid, seq) ==
    IF sid = None THEN Resume(sid, seq) ELSE Identify

\* op 10: if self.session_id: _resume() else: _identify()
Handshake(sid, seq) ==
    IF sid # None THEN Resume(sid, seq) ELSE Identify

IsHandshake(p) == p.op \in {2, 6}

\* where start() goes when connect() raises: the except clause of its loop
AfterRaise(run) == IF run THEN "outer_sleep" ELSE "done"

\* where start() goes when connect() returns: the loop test
AfterReturn(run) == IF run THEN "opening" ELSE "done"

BackoffDelayTooSteep(attempts, jitter) ==
    LET d == (2 ^ (attempts + 1)) * JitterSteps + jitter
    IN  IF d < MaxDelay * JitterSteps THEN d ELSE MaxDelay * JitterSteps

\* delay = min(300, (2 ** self.reconnect_attempts) + (time.time() % 1)),
\* in 1/JitterSteps seconds; jitter is time.time() % 1 in the same unit
BackoffDelay(attempts, jitter) ==
    LET d == (2 ^ attempts) * JitterSteps + jitter
    IN  IF d < MaxDelay * JitterSteps THEN d ELSE MaxDelay * JitterSteps

\* the values time.time() % 1 may take
Jitters == 0..(JitterSteps - 1)

\* the delay the except clause of connect() computes, when it computes one
DelayAfterExcept(attempts, old) ==
    IF attempts < max_reconnect_attempts
    THEN {BackoffDelay(attempts, j) : j \in Jitters}
    ELSE {old}

\* the except clause of connect(), given the incremented counter
AfterExcept(attempts, run) ==
    IF attempts < max_reconnect_attempts THEN "backoff" ELSE AfterRaise(run)

\* hbUnacked: 0 none pending, 1 one heartbeat unacknowledged, 2 two sent
\* in a row without an acknowledgment between them, 3 one more sent after.
UnackedAfterSend(n) == IF n < 3 THEN n + 1 ELSE 3
UnackedAfterAck(n) == IF n < 2 THEN 0 ELSE n

InitGW ==
    /\ pc = "init"
    /\ running = FALSE
    /\ ws = "none"
    /\ session_id = None
    /\ sequence = NoSeq
    /\ heartbeat_interval = None
    /\ last_heartbeat_ack = TRUE
    /\ reconnect_attempts = 0
    /\ delay = 0
    /\ loops = <<>>
    /\ conn = 0
    /\ inp = NoFrame
    /\ out = <<>>
    /\ event = None
    /\ stopRequested = FALSE
    /\ hbUnacked = 0
    /\ identified = FALSE
    /\ established = FALSE
    /\ viaReconnect = FALSE
    /\ invalidated = "no"
    /\ strayed = FALSE
    /\ ackBuffered = FALSE

\* the tasks left when task i has returned
Without(ls, i) == [k \in 1..(Len(ls) - 1) |-> IF k < i THEN ls[k] ELSE ls[k + 1]]

\* A task made by asyncio.create_task runs its first step as soon as the
\* running coroutine suspends, before any sleep or network wait of another
\* coroutine can complete.
NoPendingStart == \A i \in DOMAIN loops : loops[i].st # "created"

\* what a step leaves alone unless it says otherwise
Quiet == inp' = NoFrame /\ out' = <<>> /\ event' = None /\ UNCHANGED strayed
NoSession == UNCHANGED <<session_id, sequence, established, viaReconnect,
                         invalidated>>
NoHeartbeat == UNCHANGED <<heartbeat_interval, last_heartbeat_ack, loops, hbUnacked>>

\* a frame waiting in the websocket is lost to the program once that
\* websocket is closed or replaced
KeepBuffer == ackBuffered' = (ackBuffered /\ ws' = "open" /\ conn' = conn)

\* `async for msg in ws` takes a frame that is already there without
\* suspending, so no other task runs between the return of _handle_message
\* and the handling of that frame
NoBufferedFrame == ~(pc = "reading" /\ ws = "open" /\ ackBuffered)

(***************************************************************************)
(* DiscordUser.start / stop and GatewayHandler.connect                     *)
(***************************************************************************)
\* start(): _get_user_info succeeded, the gateway is created, running = True
\* and connect() is entered
Start ==
    /\ pc = "init"
    /\ pc' = "opening"
    /\ running' = TRUE
    /\ Quiet /\ NoSession /\ NoHeartbeat
    /\ UNCHANGED <<ws, reconnect_attempts, conn, stopRequested, identified, delay, rlvars>>
    /\ KeepBuffer

\* start(): _get_user_info raised; cleanup() and the exception propagates
StartFails ==
    /\ pc = "init"
    /\ pc' = "done"
    /\ Quiet /\ NoSession /\ NoHeartbeat
    /\ UNCHANGED <<running, ws, reconnect_attempts, conn, stopRequested, identified, delay, rlvars>>
    /\ KeepBuffer

\* connect(): ws_connect succeeded
OpenSucceeds ==
    /\ pc = "opening"
    /\ NoPendingStart
    /\ conn < MaxConns
    /\ ws' = "open"
    /\ conn' = conn + 1
    /\ reconnect_attempts' = 0
    /\ pc' = "reading"
    /\ hbUnacked' = 0
    /\ identified' = FALSE
    /\ Quiet /\ NoSession
    /\ UNCHANGED <<running, heartbeat_interval, last_heartbeat_ack, loops,
                   stopRequested, delay, rlvars>>
    /\ KeepBuffer

SessionAfterExceptCleared(attempts, sid, seq) ==
    IF attempts < max_reconnect_attempts
    THEN [session_id |-> sid, sequence |-> seq]
    ELSE [session_id |-> None, sequence |-> NoSeq]

\* the except clause of connect() assigns neither session_id nor sequence,
\* whether it sleeps and re-raises or gives up
SessionAfterExcept(attempts, sid, seq) ==
    [session_id |-> sid, sequence |-> seq]

ExceptKeepsSession(seq) ==
    /\ session_id' = SessionAfterExcept(reconnect_attempts', session_id, seq).session_id
    /\ sequence' = SessionAfterExcept(reconnect_attempts', session_id, seq).sequence

\* connect(): ws_connect raised; the except clause counts the attempt
OpenFails ==
    /\ pc = "opening"
    /\ NoPendingStart
    /\ reconnect_attempts < MaxAttempts
    /\ reconnect_attempts' = reconnect_attempts + 1
    /\ pc' = AfterExcept(reconnect_attempts', running)
    /\ delay' \in DelayAfterExcept(reconnect_attempts', delay)
    /\ ExceptKeepsSession(sequence)
    /\ Quiet /\ NoHeartbeat
    /\ UNCHANGED <<running, ws, conn, stopRequested, identified, established,
                   viaReconnect, invalidated, rlvars>>
    /\ KeepBuffer

\* connect(): asyncio.sleep(delay) is over, the exception is re-raised
BackoffDone ==
    /\ pc = "backoff"
    /\ NoPendingStart
    /\ pc' = AfterRaise(running)
    /\ delay' = 0
    /\ Quiet /\ NoSession /\ NoHeartbeat
    /\ UNCHANGED <<running, ws, reconnect_attempts, conn, stopRequested, identified, rlvars>>
    /\ KeepBuffer

\* start(): asyncio.sleep(5) is over, back to the loop test
OuterSleepDone ==
    /\ pc = "outer_sleep"
    /\ NoPendingStart
    /\ pc' = AfterReturn(running)
    /\ Quiet /\ NoSession /\ NoHeartbeat
    /\ UNCHANGED <<running, ws, reconnect_attempts, conn, stopRequested, identified, delay, rlvars>>
    /\ KeepBuffer

\* connect(): the server closed the websocket (CLOSE or ERROR message):
\* the read loop breaks and connect() returns
ServerClose ==
    /\ pc = "reading" /\ ws = "open"
    /\ NoBufferedFrame
    /\ ws' = "closed"
    /\ pc' = AfterReturn(running)
    /\ Quiet /\ NoSession /\ NoHeartbeat
    /\ UNCHANGED <<running, reconnect_attempts, conn, stopRequested, identified, delay, rlvars>>
    /\ KeepBuffer

\* connect(): the websocket was closed by this program (close()): the read
\* loop ends and connect() returns
ReadClosed ==
    /\ pc = "reading" /\ ws = "closed"
    /\ pc' = AfterReturn(running)
    /\ Quiet /\ NoSession /\ NoHeartbeat
    /\ UNCHANGED <<running, ws, reconnect_attempts, conn, stopRequested, identified, delay, rlvars>>
    /\ KeepBuffer

\* stop(), called by another task once start() runs its loop:
\* running = False, then gateway.close() closes an open websocket
Stop ==
    /\ pc \notin {"init", "done"}
    /\ ~stopRequested
    /\ NoBufferedFrame
    /\ stopRequested' = TRUE
    /\ running' = FALSE
    /\ ws' = IF ws = "open" THEN "closed" ELSE ws
    /\ Quiet /\ NoSession /\ NoHeartbeat
    /\ UNCHANGED <<pc, reconnect_attempts, conn, identified, delay, rlvars>>
    /\ KeepBuffer

(***************************************************************************)
(* GatewayHandler._handle_message, one action per opcode.  Every frame     *)
(* first stores its s (lines 77-78), then runs the branch of its opcode.   *)
(***************************************************************************)
CanRead == pc = "reading" /\ ws = "open" /\ ~ackBuffered

\* the exception leaves `async with ws_connect(...)`, which closes the
\* websocket, and reaches the except clause of connect()
HandlerRaises ==
    /\ ws' = "closed"
    /\ reconnect_attempts' = reconnect_attempts + 1
    /\ pc' = AfterExcept(reconnect_attempts', running)
    /\ delay' \in DelayAfterExcept(reconnect_attempts', delay)
    /\ out' = <<>>
    /\ event' = None

\* op 0: await self.bot.handle_event(t, d); handle_event catches what its
\* handlers raise, and may suspend (a command waiting to send a message)
RecvDispatch(f) ==
    /\ CanRead
    /\ inp' = f
    /\ sequence' = SequenceAfter(sequence, f.s)
    /\ event' = f.t
    /\ out' = <<>>
    /\ pc' \in {"reading", "in_event"}
    /\ established' = (established \/ identified)
    /\ NoHeartbeat
    /\ UNCHANGED <<running, ws, session_id, reconnect_attempts, conn,
                   stopRequested, identified, viaReconnect, invalidated, strayed, delay, rlvars>>
    /\ KeepBuffer

\* handle_event returns
EventDone ==
    /\ pc = "in_event"
    /\ NoPendingStart
    /\ pc' = "reading"
    /\ Quiet /\ NoSession /\ NoHeartbeat
    /\ UNCHANGED <<running, ws, reconnect_attempts, conn, stopRequested,
                   identified, delay, rlvars>>
    /\ KeepBuffer

\* op 1: await self._send_heartbeat()
RecvHeartbeatRequest(f) ==
    /\ CanRead
    /\ inp' = f
    /\ sequence' = SequenceAfter(sequence, f.s)
    /\ last_heartbeat_ack' = FALSE
    /\ out' = SendPayload(ws, Heartbeat(sequence'))
    /\ hbUnacked' = UnackedAfterSend(hbUnacked)
    /\ event' = None
    /\ UNCHANGED <<pc, running, ws, session_id, heartbeat_interval,
                   reconnect_attempts, loops, conn, stopRequested, identified,
                   established, viaReconnect, invalidated, strayed, delay, rlvars>>
    /\ KeepBuffer

\* op 7: await self.close()
RecvReconnect(f) ==
    /\ CanRead
    /\ inp' = f
    /\ sequence' = SequenceAfter(sequence, f.s)
    /\ ws' = "closed"
    /\ viaReconnect' = established
    /\ out' = <<>>
    /\ event' = None
    /\ NoHeartbeat
    /\ UNCHANGED <<pc, running, session_id, reconnect_attempts, conn,
                   stopRequested, identified, established, invalidated, strayed, delay, rlvars>>
    /\ KeepBuffer

\* op 9, up to await asyncio.sleep(5)
RecvInvalidSession(f) ==
    LET st == InvalidSession(f.d, session_id, SequenceAfter(sequence, f.s))
    IN  /\ CanRead
        /\ inp' = f
        /\ session_id' = st.session_id
        /\ sequence' = st.sequence
        /\ pc' = "invalid_wait"
        /\ invalidated' = IF sequence # NoSeq THEN "had_sequence" ELSE "had_none"
        /\ established' = FALSE
        /\ viaReconnect' = FALSE
        /\ out' = <<>>
        /\ event' = None
        /\ NoHeartbeat
        /\ UNCHANGED <<running, ws, reconnect_attempts, conn, stopRequested,
                       identified, strayed, delay, rlvars>>
        /\ KeepBuffer

\* op 9, after the sleep: await self._identify()
InvalidWaitDone ==
    /\ pc = "invalid_wait"
    /\ NoPendingStart
    /\ pc' = "reading"
    /\ inp' = NoFrame
    /\ out' = SendPayload(ws, Identify)
    /\ event' = None
    /\ identified' = (identified \/ out' # <<>>)
    /\ invalidated' = IF out' = <<>> THEN invalidated ELSE "no"
    /\ NoHeartbeat
    /\ UNCHANGED <<running, ws, session_id, sequence, reconnect_attempts, conn,
                   stopRequested, established, viaReconnect, strayed, delay, rlvars>>
    /\ KeepBuffer

\* op 10 with d['heartbeat_interval']: the loop task is created, then the
\* handshake is written
RecvHello(f) ==
    /\ CanRead
    /\ f.d = "interval"
    /\ Len(loops) < MaxLoops
    /\ inp' = f
    /\ sequence' = SequenceAfter(sequence, f.s)
    /\ heartbeat_interval' = f.d
    /\ loops' = Append(loops, [st |-> "created", born |-> conn])
    /\ out' = SendPayload(ws, Handshake(session_id, sequence'))
    /\ identified' = TRUE
    /\ invalidated' = "no"
    /\ viaReconnect' = FALSE
    /\ event' = None
    /\ UNCHANGED <<pc, running, ws, session_id, last_heartbeat_ack,
                   reconnect_attempts, conn, stopRequested, hbUnacked,
                   established, strayed, delay, rlvars>>
    /\ KeepBuffer

\* op 10 without heartbeat_interval in d: d['heartbeat_interval'] raises
\* KeyError
RecvHelloMalformed(f) ==
    /\ CanRead
    /\ f.d = "missing"
    /\ inp' = f
    /\ HandlerRaises
    /\ ExceptKeepsSession(SequenceAfter(sequence, f.s))
    /\ NoHeartbeat
    /\ UNCHANGED <<running, conn, stopRequested, identified,
                   established, viaReconnect, invalidated, strayed, rlvars>>
    /\ KeepBuffer

\* op 11: self.last_heartbeat_ack = True
RecvHeartbeatAck(f) ==
    /\ pc = "reading" /\ ws = "open"
    /\ inp' = f
    /\ sequence' = SequenceAfter(sequence, f.s)
    /\ last_heartbeat_ack' = TRUE
    /\ hbUnacked' = UnackedAfterAck(hbUnacked)
    /\ out' = <<>>
    /\ event' = None
    /\ UNCHANGED <<pc, running, ws, session_id, heartbeat_interval,
                   reconnect_attempts, loops, conn, stopRequested, identified,
                   established, viaReconnect, invalidated, strayed, delay, rlvars>>
    /\ ackBuffered' = FALSE

\* any other opcode: no branch
RecvOther(f) ==
    /\ CanRead
    /\ inp' = f
    /\ sequence' = SequenceAfter(sequence, f.s)
    /\ out' = <<>>
    /\ event' = None
    /\ NoHeartbeat
    /\ UNCHANGED <<pc, running, ws, session_id, reconnect_attempts, conn,
                   stopRequested, identified, established, viaReconnect,
                   invalidated, strayed, delay, rlvars>>
    /\ KeepBuffer

\* a text message that is not JSON: json.loads raises
RecvBadJson ==
    /\ CanRead
    /\ inp' = NoFrame
    /\ HandlerRaises
    /\ ExceptKeepsSession(sequence)
    /\ NoHeartbeat
    /\ UNCHANGED <<running, conn, stopRequested, identified, established,
                   viaReconnect, invalidated, strayed, rlvars>>
    /\ KeepBuffer

(***************************************************************************)
(* GatewayHandler._heartbeat_loop: one iteration of task i, from the loop  *)
(* test to asyncio.sleep(self.heartbeat_interval).  The test reads self.ws,*)
(* the websocket the handler holds now.                                    *)
(***************************************************************************)
HbRun(i) ==
    /\ loops[i].st \in {"created", "sleeping"}
    /\ NoBufferedFrame
    /\ inp' = NoFrame
    /\ event' = None
    /\ IF ws = "open" /\ last_heartbeat_ack
       THEN /\ last_heartbeat_ack' = FALSE
            /\ out' = SendPayload(ws, Heartbeat(sequence))
            /\ hbUnacked' = UnackedAfterSend(hbUnacked)
            /\ loops' = [loops EXCEPT ![i].st = "sleeping"]
            /\ strayed' = (strayed \/ loops[i].born # conn)
       ELSE /\ loops' = Without(loops, i)
            /\ out' = <<>>
            /\ UNCHANGED <<last_heartbeat_ack, hbUnacked, strayed>>
    /\ NoSession
    /\ UNCHANGED <<pc, running, ws, heartbeat_interval, reconnect_attempts,
                   conn, stopRequested, identified, delay, rlvars>>
    /\ KeepBuffer

\* The server's HEARTBEAT ACK for a pending heartbeat reaches the websocket
\* while connect() is inside `await self._handle_message(...)`, suspended in
\* the sleep of op 9 or in bot.handle_event: nothing reads it until the
\* handler returns.
AckArrives ==
    /\ ws = "open"
    /\ pc \in {"invalid_wait", "in_event"}
    /\ hbUnacked > 0
    /\ ~ackBuffered
    /\ ackBuffered' = TRUE
    /\ Quiet /\ NoSession /\ NoHeartbeat
    /\ UNCHANGED <<pc, running, ws, reconnect_attempts, conn, stopRequested,
                   identified, delay, rlvars>>

\* some task of the set wakes up or runs its first step
HeartbeatLoop == \E i \in DOMAIN loops : HbRun(i)

\* DiscordUser.__init__ builds RateLimiter() with no config
Init == InitGW /\ InitRLFixed /\ config = <<>>

Next ==
    \/ Start
    \/ StartFails
    \/ OpenSucceeds
    \/ OpenFails
    \/ BackoffDone
    \/ OuterSleepDone
    \/ ServerClose
    \/ ReadClosed
    \/ Stop
    \/ \E f \in DispatchFrames : RecvDispatch(f)
    \/ EventDone
    \/ \E f \in HeartbeatRequestFrames : RecvHeartbeatRequest(f)
    \/ \E f \in ReconnectFrames : RecvReconnect(f)
    \/ \E f \in InvalidSessionFrames : RecvInvalidSession(f)
    \/ InvalidWaitDone
    \/ \E f \in HelloFrames : RecvHello(f)
    \/ \E f \in HelloFrames : RecvHelloMalformed(f)
    \/ \E f \in HeartbeatAckFrames : RecvHeartbeatAck(f)
    \/ \E f \in OtherFrames : RecvOther(f)
    \/ RecvBadJson
    \/ AckArrives
    \/ HeartbeatLoop

Spec == Init /\ [][Next]_vars

(***************************************************************************)
(* Specifications of the rate limiter                                      *)
(***************************************************************************)
AllIdle == \A c \in Callers : rl[c].pc = "idle"

\* a call that starts only after the previous one has returned
CallSeq(c, b) == AllIdle /\ Call(c, b)

InitRL == InitRLFixed /\ config \in Configs /\ InitGW

NextSeq ==
    \/ \E c \in Callers, b \in BucketNames : CallSeq(c, b)
    \/ \E c \in Callers : Wake(c)
    \/ Tick

NextRL ==
    \/ \E c \in Callers, b \in BucketNames : Call(c, b)
    \/ \E c \in Callers : Wake(c)
    \/ Tick

SpecSeq == InitRL /\ [][NextSeq]_vars
SpecRL == InitRL /\ [][NextRL]_vars

\* number of admissions of bucket b recorded in the interval [t, t + w)
InWindow(b, t, w) ==
    Cardinality({i \in DOMAIN admitted[b] :
                    admitted[b][i] >= t /\ admitted[b][i] < t + w})

WindowRespected ==
    \A b \in BucketNames : \A t \in 0..MaxTime :
        InWindow(b, t, Limits(config, b).window) <= Limits(config, b).requests

\* C1: with calls issued one after another, every interval of length
\* window_seconds holds at most max_requests recorded admissions of a bucket.
C1_SlidingWindowSequential == WindowRespected

\* a caller was suspended on a full bucket and was then admitted
C1_Witness ==
    \E b \in BucketNames :
        /\ Len(admitted[b]) > Limits(config, b).requests
        /\ Limits(config, b).requests > 0
        /\ AllIdle

\* C2: with concurrent callers on one bucket, every interval of length
\* window_seconds still holds at most max_requests recorded admissions.
C2_SlidingWindowConcurrent ==
    \A b \in BucketNames : \A t \in 0..MaxTime :
        InWindow(b, t, Limits(config, b).window) <= Limits(config, b).requests

(***************************************************************************)
(* Gateway claims                                                          *)
(***************************************************************************)
\* C3: once two heartbeats in a row were sent on a websocket with no
\* HEARTBEAT ACK between them, no third heartbeat is sent on that websocket.
C3_NoThirdHeartbeat == hbUnacked < 3

\* C4, as claimed: the first payload written after INVALID SESSION, from the
\* start of the 5-second wait on, is IDENTIFY.
C4_NextPayloadIsIdentify ==
    [][(pc = "invalid_wait" /\ out' # <<>>) => out'[1].op = 2]_vars

\* C4, amended: handling INVALID SESSION leaves session_id and sequence
\* unset until the wait is over, and the next handshake payload (op 2 or
\* op 6) written after it is IDENTIFY; heartbeats may be written before it.
C4_IdentifyAfterInvalidSession ==
    [][/\ (pc' = "invalid_wait" \/ pc = "invalid_wait")
            => (session_id' = None /\ sequence' = NoSeq)
       /\ (invalidated # "no" /\ out' # <<>> /\ IsHandshake(out'[1]))
            => out'[1].op = 2]_vars

\* the wait after an INVALID SESSION is over and IDENTIFY was written
C4_Witness ==
    /\ out = <<Identify>> /\ inp = NoFrame
    /\ session_id = None /\ sequence = NoSeq

\* C5: handling a HELLO that carries a heartbeat_interval writes exactly one
\* payload: RESUME with the held session_id and the stored sequence when a
\* session_id is held, IDENTIFY otherwise; RESUME is never written without
\* a session_id.
C5_HandshakeOnHello ==
    [][/\ (inp'.op = 10 /\ inp'.d = "interval")
            => /\ Len(out') = 1
               /\ out'[1] = IF session_id # None
                            THEN Resume(session_id, sequence')
                            ELSE Identify
       /\ \A k \in DOMAIN out' :
            out'[k].op = 6 => (session_id # None /\ inp'.op = 10)]_vars

\* a HELLO was handled and its handshake written
C5_Witness == inp.op = 10 /\ inp.d = "interval" /\ Len(out) = 1 /\ IsHandshake(out[1])

\* C6: after RECONNECT closed the websocket of an established session, the
\* next handshake written is RESUME.
C6_ResumeAfterReconnect ==
    [][(viaReconnect /\ out' # <<>> /\ IsHandshake(out'[1]))
            => out'[1].op = 6]_vars

\* C7: a heartbeat loop never sends on a websocket opened after the one it
\* was created on.
C7_LoopStaysOnItsConnection == ~strayed

\* C8: handling a frame never replaces the stored sequence by a smaller one.
C8_SequenceMonotonic ==
    [][(sequence # NoSeq /\ sequence' # NoSeq) => sequence' >= sequence]_vars

CanProgressAlone ==
    \/ pc \in {"opening", "backoff", "outer_sleep", "invalid_wait", "in_event"}
    \/ pc = "reading" /\ ws = "closed"
    \/ loops # <<>>

\* C10: after stop(), when the program can go no further without the
\* server, the websocket is closed, the heartbeat loops have exited and
\* start() has returned.
C10_StopCompletes ==
    (stopRequested /\ ~CanProgressAlone)
        => /\ pc = "done"
           /\ ws # "open"
           /\ loops = <<>>

\* a frame the protocol does not expect: an opcode without a branch, or a
\* HELLO whose d has no heartbeat_interval
Malformed(f) == f.op = 3 \/ (f.op = 10 /\ f.d = "missing")

\* C11: a malformed or unexpected frame is skipped: the websocket stays
\* open, the reconnect counter keeps its value and the read loop goes on.
C11_MalformedFrameSkipped ==
    [][Malformed(inp')
         => /\ ws' = "open"
            /\ reconnect_attempts' = reconnect_attempts
            /\ pc' = "reading"]_vars

\* the bound min(300, 2^k + 1) seconds, in the unit of delay
DelayCeiling(k) ==
    IF 2 ^ k + 1 < MaxDelay THEN (2 ^ k + 1) * JitterSteps
                            ELSE MaxDelay * JitterSteps

\* C12: while connect() sleeps after the k-th consecutive failure, the delay
\* it computed is at least 0 and at most min(300, 2^k + 1) seconds.
C12_BackoffDelayBounded ==
    pc = "backoff"
        => (delay >= 0 /\ delay <= DelayCeiling(reconnect_attempts))

\* connect() sleeps after a second consecutive failure, with the largest
\* jitter
C12_Witness ==
    /\ pc = "backoff" /\ reconnect_attempts = 2
    /\ delay = BackoffDelay(2, JitterSteps - 1)

(***************************************************************************)
(* Rate limiter claims, continued                                          *)
(***************************************************************************)
\* C13: no call of wait_if_needed raises, whatever the configured limits.
C13_NeverRaises == ~raised

(***************************************************************************)
(* Gateway claims, continued                                               *)
(***************************************************************************)
\* C14: a DISPATCH frame with sequence s and type t stores s (when s is not
\* null) in the step that hands (t, payload) to the dispatcher, which happens
\* once, in that step; a frame of any other opcode, and a step that reads no
\* frame, makes no dispatcher call.
C14_DispatchForwardedOnce ==
    [][/\ inp'.op = 0
            => /\ event' = inp'.t
               /\ inp'.s # NoSeq => sequence' = inp'.s
       /\ inp'.op # 0 => event' = None]_vars

C14_Witness ==
    /\ inp.op = 0 /\ inp.s = 2 /\ sequence = 2
    /\ inp.t = "MESSAGE_CREATE" /\ event = "MESSAGE_CREATE"
    /\ pc = "in_event"

\* C15: the heartbeat loop started by HELLO sleeps one interval before it
\* sends: the first step of a loop sends no heartbeat.
C15_FirstHeartbeatAfterSleep ==
    [][\A i \in DOMAIN loops :
           (/\ loops[i].st = "created"
            /\ Len(loops') = Len(loops)
            /\ loops'[i].st = "sleeping") => out' = <<>>]_vars

(***************************************************************************)
(* Rate limiter claims: the wait of a suspended caller                     *)
(***************************************************************************)
\* timestamps of bucket b still inside its window at the present instant
Remaining(b) == Prune(BucketOf(buckets, b), now, Limits(config, b).window)

\* C16: for a bucket with cap N >= 1 and window W, a call is admitted at once
\* while fewer than N timestamps remain in the window, and is suspended
\* otherwise; the suspension lasts W - (now - oldest remaining timestamp),
\* which is never negative; the caller is admitted no earlier than the end of
\* that wait, so that when the N remaining timestamps all carry the instant t
\* of the call, it is admitted no earlier than t + W.
C16_SuspendedForRestOfWindow ==
    [][\A c \in Callers :
          /\ (rl[c].pc = "idle" /\ rl'[c].pc = "sleeping")
                => LET b == rl'[c].bucket
                       N == Limits(config, b).requests
                       W == Limits(config, b).window
                       wait == rl'[c].wake - now
                   IN  /\ Len(Remaining(b)) >= N
                       /\ wait = W - (now - MinOf(Remaining(b)))
                       /\ wait >= 0
                       /\ (\A i \in DOMAIN Remaining(b) : Remaining(b)[i] = now)
                             => rl'[c].wake = now + W
                       /\ admitted' = admitted
          /\ (rl[c].pc = "sleeping" /\ rl'[c].pc = "idle")
                => LET b == rl[c].bucket
                   IN  /\ admitted'[b] = Append(admitted[b], now)
                       /\ now >= rl[c].wake
          /\ (calls' = calls + 1 /\ admitted' # admitted)
                => \E b \in BucketNames :
                      /\ Len(Remaining(b)) < Limits(config, b).requests
                      /\ admitted' = [admitted EXCEPT ![b] = Append(@, now)]]_vars

\* three calls at one instant on a bucket of cap 2 and window 2: two admitted
\* at that instant, the third a whole window later
C16_Witness ==
    \E b \in DOMAIN config :
        /\ config[b].requests = 2 /\ config[b].window = 2
        /\ Len(admitted[b]) = 3
        /\ admitted[b][2] = admitted[b][1]
        /\ admitted[b][3] = admitted[b][1] + 2
        /\ AllIdle

(***************************************************************************)
(* Gateway claims: session state and the reconnect counter                 *)
(***************************************************************************)
\* C17: session_id and sequence change only in a step that reads a frame
\* carrying a non-null s or an INVALID SESSION frame; a failed open, a
\* backoff sleep, a reconnect attempt and the exhaustion of
\* max_reconnect_attempts leave both as they were.
C17_SessionKeptAcrossFailures ==
    [][(sequence' # sequence \/ session_id' # session_id)
          => /\ inp' # NoFrame
             /\ inp'.s # NoSeq \/ inp'.op = 9]_vars

\* the reconnect attempts are exhausted, start() waits to call connect()
\* again, and the sequence received earlier is still stored
C17_Witness ==
    /\ pc = "outer_sleep"
    /\ reconnect_attempts >= max_reconnect_attempts
    /\ sequence # NoSeq

\* C18: the count of failed attempts never exceeds max_reconnect_attempts,
\* also when start() calls connect() again after the attempts ran out.
C18_AttemptsBounded == reconnect_attempts <= max_reconnect_attempts

(***************************************************************************)
(* Rate limiter claims: independence of the buckets                        *)
(***************************************************************************)
\* the timestamps the limiter holds for bucket b in the mapping bs
StoredIn(bs, b) == IF b \in DOMAIN bs THEN bs[b] ELSE <<>>

\* admissions of bucket b recorded less than its window ago
OwnRecent(b) ==
    Cardinality({i \in DOMAIN admitted[b] :
                    now - admitted[b][i] < Limits(config, b).window})

\* C19: a step of wait_if_needed on bucket a leaves the timestamps of every
\* other bucket as they were, suspends its caller only when a itself holds at
\* least max_requests admissions inside its window, and admits at once only
\* when a holds fewer.
C19_BucketsIndependent ==
    [][\A a \in BucketNames :
          LET others == BucketNames \ {a}
              OthersKept ==
                  \A b \in others : /\ StoredIn(buckets', b) = StoredIn(buckets, b)
                                    /\ admitted'[b] = admitted[b]
          IN  /\ (\/ StoredIn(buckets', a) # StoredIn(buckets, a)
                  \/ admitted'[a] # admitted[a]) => OthersKept
              /\ \A c \in Callers :
                    (rl[c].pc = "idle" /\ rl'[c].pc = "sleeping" /\ rl'[c].bucket = a)
                        => /\ OwnRecent(a) >= Limits(config, a).requests
                           /\ OthersKept
              /\ (calls' = calls + 1 /\ admitted'[a] # admitted[a])
                    => OwnRecent(a) < Limits(config, a).requests]_vars

\* a caller is suspended on the full "message" bucket while a call on
\* "command" has just been admitted without suspension
C19_Witness ==
    /\ \E c \in Callers : rl[c].pc = "sleeping" /\ rl[c].bucket = "message"
    /\ OwnRecent("message") >= Limits(config, "message").requests
    /\ admitted["command"] # <<>>
    /\ admitted["command"][Len(admitted["command"])] = now
    /\ OwnRecent("command") <= Limits(config, "command").requests

(***************************************************************************)
(* Gateway claims: the heartbeat loop of a fresh connection                *)
(***************************************************************************)
\* C20: the heartbeat loop started by HELLO on a connection on which no
\* heartbeat is pending does not end in its first step while the websocket
\* is open: it sends a heartbeat, whatever last_heartbeat_ack the previous
\* connection left behind.
C20_FreshLoopSends ==
    [][\A i \in DOMAIN loops :
          (/\ ws = "open"
           /\ hbUnacked = 0
           /\ loops[i].st = "created"
           /\ loops[i].born = conn) => loops' # Without(loops, i)]_vars

(***************************************************************************)
(* Gateway claims: the read loop and the heartbeat loop side by side       *)
(***************************************************************************)
\* C21: on an open websocket with one heartbeat pending, once the server's
\* HEARTBEAT ACK for it has reached the websocket, the heartbeat loop of that
\* websocket does not end at its next wake-up for want of an ack, also when
\* _handle_message is suspended in the sleep of op 9 or in a dispatch handler.
C21_DeliveredAckSeen ==
    [][\A i \in DOMAIN loops :
          (/\ ws = "open"
           /\ ackBuffered
           /\ hbUnacked = 1
           /\ loops[i].st = "sleeping"
           /\ loops[i].born = conn) => loops' # Without(loops, i)]_vars

\* C22: start() enters a new connection attempt only at its first call of
\* connect() or out of a sleep: a connection that ended, by a transport
\* failure, by the server's closure or by the close of op 7, is never
\* followed at once by the next ws_connect.
C22_DelayBeforeReopen ==
    [][(pc' = "opening" /\ pc # "opening")
          => pc \in {"init", "outer_sleep"}]_vars

====
